---- MODULE Spec2Model ----
(***************************************************************************)
(* Model of DCTopo.py: the BCube and Fat-Tree topology generators, built   *)
(* on the Topo graph builder (addHost, addSwitch, addLink, nodes).         *)
(* Each loop iteration of a constructor is one step, so every              *)
(* intermediate graph of a construction is a state of the model.           *)
(***************************************************************************)
EXTENDS Integers, Sequences, FiniteSets, TLC

\* ---- bounds of the explored parameter space ----
MaxBK == 2      \* largest BCube level k
MaxBN == 3      \* largest BCube n
MaxFK == 6      \* largest Fat-Tree k
MaxFR == 3      \* largest Fat-Tree r
MaxNeg == 2     \* parameters range down to -MaxNeg

VARIABLES
    topo, k, n, r,          \* chosen constructor and its arguments
    pc, err,                \* position in the constructor, raised error
    g, links,               \* the Topo graph: nodes in insertion order, links
    n_hosts, level, sid, arg1, arg2, i, sw, m, nodeslist, v,     \* BCube locals
    n_core, c, a, e, s, pod, aggr_start_node, j, aa, ee,
    core_node, count, ei                                         \* Fat-Tree locals

argVars == <<topo, k, n, r>>
graphVars == <<g, links>>
bcVars == <<n_hosts, level, sid, arg1, arg2, m, nodeslist, v>>
ftVars == <<n_core, c, a, e, s, pod, aggr_start_node, j, aa, ee,
            core_node, count, ei>>
vars == <<topo, k, n, r, pc, err, g, links,
          n_hosts, level, sid, arg1, arg2, i, sw, m, nodeslist, v,
          n_core, c, a, e, s, pod, aggr_start_node, j, aa, ee,
          core_node, count, ei>>

\* ---- Python values and arithmetic ----
PyInt(x) == [type |-> "int", val |-> x]
PyStr == [type |-> "str", val |-> 0]
isinstance_int(x) == x.type = "int"

RECURSIVE Pow(_, _)
Pow(b, x) == IF x <= 0 THEN 1 ELSE b * Pow(b, x - 1)

\* Python's // and % on ints (floor division, remainder has the divisor's sign)
FloorDiv(x, y) == x \div y
PyMod(x, y) == x - y * FloorDiv(x, y)

\* Python list indexing, 0-based, negative indices count from the end
InRange(sq, idx) == idx >= -Len(sq) /\ idx < Len(sq)
PyGet(sq, idx) == IF idx >= 0 THEN sq[idx + 1] ELSE sq[Len(sq) + idx + 1]

\* ---- Topo graph builder ----
HasNode(gr, name) == \E idx \in DOMAIN gr : gr[idx].name = name
addNode(gr, name, kind) ==
    IF HasNode(gr, name) THEN gr ELSE Append(gr, [name |-> name, kind |-> kind])
addHost(gr, name) == addNode(gr, name, "Host")
addSwitch(gr, name) == addNode(gr, name, "Switch")
addLinkOk(gr, x, y) == HasNode(gr, x) /\ HasNode(gr, y)
addLink(ls, x, y) == Append(ls, <<x, y>>)
nodes(gr) == [idx \in DOMAIN gr |-> gr[idx].name]

Fail(kind) == /\ pc' = "failed"
              /\ err' = kind

\* ---- BCubeTopo.__init__ ----
BCubeTypeError(kv, nv) == ~isinstance_int(nv) \/ ~isinstance_int(kv)
BCubeNErrorLoose(nv) == nv < 0
BCubeNError(nv) == nv < 1
BCubeKError(kv) == kv < 0
NHostsShort(kv, nv) == Pow(nv, kv)
NHosts(kv, nv) == Pow(nv, kv + 1)
HostName(x, nv) == <<"h", FloorDiv(x, nv), PyMod(x, nv)>>
SwitchNameFlat(lv, id) == <<"s", 0, id>>
SwitchName(lv, id) == <<"s", lv, id>>
Arg1(nv, lv) == Pow(nv, lv)
Arg2Wide(nv, lv) == Pow(nv, lv + 2)
Arg2(nv, lv) == Pow(nv, lv + 1)
NSwitchesPerLevelDoc(kv, nv) == nv
NSwitchesPerLevel(kv, nv) == Pow(nv, kv)
OffsetFlat(x, a1, a2) == x
Offset(x, a1, a2) == PyMod(x, a1) + FloorDiv(x, a1) * a2

XRange(lo, hi, step) == {y \in lo..(hi - 1) : PyMod(y - lo, step) = 0}
\* the (level, host positions) pairs wired by the level loop of BCube(kv, nv)
BCubeWiring(kv, nv) ==
    {<<lv, XRange(Offset(x, Arg1(nv, lv), Arg2(nv, lv)),
                  Offset(x, Arg1(nv, lv), Arg2(nv, lv)) + Arg2(nv, lv),
                  Arg1(nv, lv))>> :
        lv \in 0..kv, x \in 0..(NSwitchesPerLevel(kv, nv) - 1)}

BCubeValidate ==
    /\ pc = "start" /\ topo = "bcube"
    /\ IF BCubeTypeError(k, n) THEN Fail("TypeKind") /\ UNCHANGED <<n_hosts, i>>
       ELSE IF BCubeNError(n.val) THEN Fail("RangeKind") /\ UNCHANGED <<n_hosts, i>>
       ELSE IF BCubeKError(k.val) THEN Fail("RangeKind") /\ UNCHANGED <<n_hosts, i>>
       ELSE /\ n_hosts' = NHosts(k.val, n.val)
            /\ i' = 0
            /\ pc' = "hosts"
            /\ err' = err
    /\ UNCHANGED <<argVars, graphVars, level, sid, arg1, arg2, sw, m, nodeslist, v, ftVars>>

BCubeAddHost ==
    /\ pc = "hosts" /\ topo = "bcube"
    /\ IF i < n_hosts
       THEN /\ g' = addHost(g, HostName(i, n.val))
            /\ i' = i + 1
            /\ UNCHANGED <<pc, level>>
       ELSE /\ level' = 0
            /\ pc' = "level"
            /\ UNCHANGED <<g, i>>
    /\ UNCHANGED <<argVars, err, links, n_hosts, sid, arg1, arg2, sw, m, nodeslist, v, ftVars>>

BCubeLevel ==
    /\ pc = "level" /\ topo = "bcube"
    /\ IF level < k.val + 1
       THEN /\ sid' = 0
            /\ arg1' = Arg1(n.val, level)
            /\ arg2' = Arg2(n.val, level)
            /\ i' = 0
            /\ pc' = "switch"
       ELSE /\ pc' = "done"
            /\ UNCHANGED <<sid, arg1, arg2, i>>
    /\ UNCHANGED <<argVars, err, graphVars, n_hosts, level, sw, m, nodeslist, v, ftVars>>

BCubeAddSwitch ==
    /\ pc = "switch" /\ topo = "bcube"
    /\ IF i < NSwitchesPerLevel(k.val, n.val)
       THEN /\ sw' = SwitchName(level, sid)
            /\ g' = addSwitch(g, SwitchName(level, sid))
            /\ m' = Offset(i, arg1, arg2)
            /\ v' = m'
            /\ nodeslist' = nodes(g')
            /\ sid' = sid + 1
            /\ pc' = "link"
            /\ UNCHANGED level
       ELSE /\ level' = level + 1
            /\ pc' = "level"
            /\ UNCHANGED <<g, sw, m, v, nodeslist, sid>>
    /\ UNCHANGED <<argVars, err, links, n_hosts, arg1, arg2, i, ftVars>>

BCubeAddLink ==
    /\ pc = "link" /\ topo = "bcube"
    /\ IF v < m + arg2
       THEN IF ~InRange(nodeslist, v)
            THEN Fail("IndexError") /\ UNCHANGED <<links, v, i>>
            ELSE IF ~addLinkOk(g, sw, PyGet(nodeslist, v))
            THEN Fail("UnknownNodeError") /\ UNCHANGED <<links, v, i>>
            ELSE /\ links' = addLink(links, sw, PyGet(nodeslist, v))
                 /\ v' = v + arg1
                 /\ UNCHANGED <<pc, err, i>>
       ELSE /\ i' = i + 1
            /\ pc' = "switch"
            /\ UNCHANGED <<err, links, v>>
    /\ UNCHANGED <<argVars, g, n_hosts, level, sid, arg1, arg2, sw, m, nodeslist, ftVars>>

\* ---- FatTreeTopo.__init__ ----
FatTreeKTypeError(kv) == ~isinstance_int(kv)
FatTreeRTypeError(rv) == ~isinstance_int(rv)
FatTreeRError(kv, rv) == PyMod(FloorDiv(kv, 2), rv) # 0
FatTreeKError(kv) == kv < 1 \/ PyMod(kv, 2) = 1
NCoreFull(kv, rv) == Pow(FloorDiv(kv, 2), 2)
NCore(kv, rv) == FloorDiv(Pow(FloorDiv(kv, 2), 2), rv)
CoreName(x) == <<"c", x + 1>>
AggrName(x) == <<"a", x>>
EdgeName(x) == <<"e", x>>
FTHostName(x) == <<"h", x>>
aggr_end_node == aggr_start_node + FloorDiv(k.val, 2)
edge_start_node == aggr_end_node
edge_end_node == edge_start_node + FloorDiv(k.val, 2)
AggrNodeNoCore(nc, cn, kv, rv, p) ==
    FloorDiv(cn, FloorDiv(FloorDiv(kv, 2), rv)) + kv * p
AggrNode(nc, cn, kv, rv, p) ==
    nc + FloorDiv(cn, FloorDiv(FloorDiv(kv, 2), rv)) + kv * p
HostsPerEdgeFull(kv) == kv
HostsPerEdge(kv) == FloorDiv(kv, 2)

FatTreeValidate ==
    /\ pc = "start" /\ topo = "fattree"
    /\ IF FatTreeKTypeError(k) THEN Fail("TypeKind") /\ UNCHANGED <<n_core, i>>
       ELSE IF FatTreeRTypeError(r) THEN Fail("TypeKind") /\ UNCHANGED <<n_core, i>>
       ELSE IF r.val = 0 THEN Fail("ZeroDivisionError") /\ UNCHANGED <<n_core, i>>
       ELSE IF FatTreeRError(k.val, r.val) THEN Fail("RangeKind") /\ UNCHANGED <<n_core, i>>
       ELSE IF FatTreeKError(k.val) THEN Fail("RangeKind") /\ UNCHANGED <<n_core, i>>
       ELSE /\ n_core' = NCore(k.val, r.val)
            /\ i' = 0
            /\ pc' = "core"
            /\ err' = err
    /\ UNCHANGED <<argVars, graphVars, bcVars, sw, c, a, e, s, pod, aggr_start_node,
                   j, aa, ee, core_node, count, ei>>

FatTreeAddCore ==
    /\ pc = "core" /\ topo = "fattree"
    /\ IF i < n_core
       THEN /\ sw' = CoreName(i)
            /\ g' = addSwitch(g, CoreName(i))
            /\ c' = Append(c, sw')
            /\ s' = Append(s, sw')
            /\ i' = i + 1
            /\ UNCHANGED <<pc, pod>>
       ELSE /\ pod' = 0
            /\ pc' = "pod"
            /\ UNCHANGED <<sw, g, c, s, i>>
    /\ UNCHANGED <<argVars, err, links, bcVars, n_core, a, e, aggr_start_node,
                   j, aa, ee, core_node, count, ei>>

FatTreePod ==
    /\ pc = "pod" /\ topo = "fattree"
    /\ IF pod < k.val
       THEN /\ aggr_start_node' = Len(s) + 1
            /\ i' = aggr_start_node'
            /\ pc' = "aggr"
            /\ UNCHANGED <<core_node, pod>>
       ELSE /\ core_node' = 0
            /\ pod' = 0
            /\ pc' = "corelink"
            /\ UNCHANGED <<aggr_start_node, i>>
    /\ UNCHANGED <<argVars, err, graphVars, bcVars, sw, n_core, c, a, e, s,
                   j, aa, ee, count, ei>>

FatTreeAddAggr ==
    /\ pc = "aggr" /\ topo = "fattree"
    /\ IF i < aggr_end_node
       THEN /\ sw' = AggrName(i)
            /\ g' = addSwitch(g, AggrName(i))
            /\ a' = Append(a, sw')
            /\ s' = Append(s, sw')
            /\ i' = i + 1
            /\ UNCHANGED <<pc, j>>
       ELSE /\ j' = edge_start_node
            /\ pc' = "edge"
            /\ UNCHANGED <<sw, g, a, s, i>>
    /\ UNCHANGED <<argVars, err, links, bcVars, n_core, c, e, pod, aggr_start_node,
                   aa, ee, core_node, count, ei>>

FatTreeAddEdge ==
    /\ pc = "edge" /\ topo = "fattree"
    /\ IF j < edge_end_node
       THEN /\ sw' = EdgeName(j)
            /\ g' = addSwitch(g, EdgeName(j))
            /\ e' = Append(e, sw')
            /\ s' = Append(s, sw')
            /\ j' = j + 1
            /\ UNCHANGED <<pc, aa, ee>>
       ELSE /\ aa' = aggr_start_node
            /\ ee' = edge_start_node
            /\ pc' = "podlink"
            /\ UNCHANGED <<sw, g, e, s, j>>
    /\ UNCHANGED <<argVars, err, links, bcVars, i, n_core, c, a, pod, aggr_start_node,
                   core_node, count, ei>>

FatTreePodLink ==
    /\ pc = "podlink" /\ topo = "fattree"
    /\ IF aa < aggr_end_node
       THEN IF ee < edge_end_node
            THEN IF ~InRange(s, aa - 1) \/ ~InRange(s, ee - 1)
                 THEN Fail("IndexError") /\ UNCHANGED <<links, aa, ee, pod>>
                 ELSE IF ~addLinkOk(g, PyGet(s, aa - 1), PyGet(s, ee - 1))
                 THEN Fail("UnknownNodeError") /\ UNCHANGED <<links, aa, ee, pod>>
                 ELSE /\ links' = addLink(links, PyGet(s, aa - 1), PyGet(s, ee - 1))
                      /\ ee' = ee + 1
                      /\ UNCHANGED <<pc, err, aa, pod>>
            ELSE /\ aa' = aa + 1
                 /\ ee' = edge_start_node
                 /\ UNCHANGED <<pc, err, links, pod>>
       ELSE /\ pod' = pod + 1
            /\ pc' = "pod"
            /\ UNCHANGED <<err, links, aa, ee>>
    /\ UNCHANGED <<argVars, g, bcVars, i, sw, n_core, c, a, e, s, aggr_start_node,
                   j, core_node, count, ei>>

FatTreeCoreLink ==
    /\ pc = "corelink" /\ topo = "fattree"
    /\ IF core_node < n_core
       THEN IF pod < k.val
            THEN LET aggr_node == AggrNode(n_core, core_node, k.val, r.val, pod) IN
                 IF ~InRange(s, core_node) \/ ~InRange(s, aggr_node)
                 THEN Fail("IndexError")
                      /\ UNCHANGED <<links, pod, core_node, count, ei, i>>
                 ELSE IF ~addLinkOk(g, PyGet(s, core_node), PyGet(s, aggr_node))
                 THEN Fail("UnknownNodeError")
                      /\ UNCHANGED <<links, pod, core_node, count, ei, i>>
                 ELSE /\ links' = addLink(links, PyGet(s, core_node), PyGet(s, aggr_node))
                      /\ pod' = pod + 1
                      /\ UNCHANGED <<pc, err, core_node, count, ei, i>>
            ELSE /\ core_node' = core_node + 1
                 /\ pod' = 0
                 /\ UNCHANGED <<pc, err, links, count, ei, i>>
       ELSE /\ count' = 1
            /\ ei' = 0
            /\ i' = 0
            /\ pc' = "host"
            /\ UNCHANGED <<err, links, pod, core_node>>
    /\ UNCHANGED <<argVars, g, bcVars, sw, n_core, c, a, e, s, aggr_start_node,
                   j, aa, ee>>

FatTreeAddHost ==
    /\ pc = "host" /\ topo = "fattree"
    /\ IF ei < Len(e)
       THEN IF i < HostsPerEdge(k.val)
            THEN LET host == FTHostName(count) IN
                 /\ sw' = PyGet(e, ei)
                 /\ g' = addHost(g, host)
                 /\ IF ~addLinkOk(g', sw', host)
                    THEN Fail("UnknownNodeError") /\ UNCHANGED <<links, count, i>>
                    ELSE /\ links' = addLink(links, sw', host)
                         /\ count' = count + 1
                         /\ i' = i + 1
                         /\ UNCHANGED <<pc, err>>
                 /\ UNCHANGED ei
            ELSE /\ ei' = ei + 1
                 /\ i' = 0
                 /\ UNCHANGED <<pc, err, sw, g, links, count>>
       ELSE /\ pc' = "done"
            /\ UNCHANGED <<err, sw, g, links, count, i, ei>>
    /\ UNCHANGED <<argVars, bcVars, n_core, c, a, e, s, pod, aggr_start_node,
                   j, aa, ee, core_node>>

FatTreeKArgs == {PyInt(x) : x \in (-MaxNeg)..MaxFK} \cup {PyStr}
FatTreeRArgs == {PyInt(x) : x \in (-MaxNeg)..MaxFR} \cup {PyStr}
BCubeArgs == {PyInt(x) : x \in (-MaxNeg)..MaxBK} \cup {PyStr}
BCubeNArgs == {PyInt(x) : x \in (-MaxNeg)..MaxBN} \cup {PyStr}

Init ==
    /\ topo \in {"bcube", "fattree"}
    /\ \/ topo = "bcube" /\ k \in BCubeArgs /\ n \in BCubeNArgs /\ r = PyInt(1)
       \/ topo = "fattree" /\ k \in FatTreeKArgs /\ r \in FatTreeRArgs /\ n = PyInt(4)
    /\ pc = "start" /\ err = "none"
    /\ g = <<>> /\ links = <<>>
    /\ n_hosts = 0 /\ level = 0 /\ sid = 0 /\ arg1 = 0 /\ arg2 = 0 /\ i = 0
    /\ sw = <<>> /\ m = 0 /\ nodeslist = <<>> /\ v = 0
    /\ n_core = 0 /\ c = <<>> /\ a = <<>> /\ e = <<>> /\ s = <<>> /\ pod = 0
    /\ aggr_start_node = 0 /\ j = 0 /\ aa = 0 /\ ee = 0
    /\ core_node = 0 /\ count = 0 /\ ei = 0

Next ==
    \/ BCubeValidate \/ BCubeAddHost \/ BCubeLevel \/ BCubeAddSwitch \/ BCubeAddLink
    \/ FatTreeValidate \/ FatTreeAddCore \/ FatTreePod \/ FatTreeAddAggr
    \/ FatTreeAddEdge \/ FatTreePodLink \/ FatTreeCoreLink \/ FatTreeAddHost

Spec == Init /\ [][Next]_vars
FairSpec == Spec /\ WF_vars(Next)

\* ---- the graph as the consumer sees it ----
NodeNames == {g[idx].name : idx \in DOMAIN g}
HostNames == {g[idx].name : idx \in {y \in DOMAIN g : g[y].kind = "Host"}}
SwitchNames == {g[idx].name : idx \in {y \in DOMAIN g : g[y].kind = "Switch"}}
LinksAt(x) == {l \in DOMAIN links : links[l][1] = x \/ links[l][2] = x}
Degree(x) == Cardinality({l \in DOMAIN links : links[l][1] = x})
             + Cardinality({l \in DOMAIN links : links[l][2] = x})
Joins(l, x, y) == links[l] = <<x, y>> \/ links[l] = <<y, x>>
NamesWith(prefix) == {x \in NodeNames : x[1] = prefix}

BCubeValid == /\ topo = "bcube" /\ isinstance_int(k) /\ isinstance_int(n)
              /\ k.val >= 0 /\ n.val >= 1
BCubeDone == BCubeValid /\ pc = "done"
FatTreeValid == /\ topo = "fattree" /\ isinstance_int(k) /\ isinstance_int(r)
                /\ k.val >= 1 /\ k.val % 2 = 0
                /\ r.val >= 1 /\ (k.val \div 2) % r.val = 0
FatTreeDone == FatTreeValid /\ pc = "done"

\* C1: for all integer (k, r), Fat-Tree construction either completes or fails
\* with RangeKind before any node is created; it fails with RangeKind whenever
\* k is not positive even or r is not a positive divisor of k/2; no error kind
\* other than TypeKind and RangeKind is ever raised.
C1_FatTreeValidation ==
    (topo = "fattree" /\ pc # "start") =>
        /\ err \in {"none", "TypeKind", "RangeKind"}
        /\ (isinstance_int(k) /\ isinstance_int(r)) =>
              /\ err \in {"none", "RangeKind"}
              /\ err = "RangeKind" => g = <<>>
              /\ ~FatTreeValid => err = "RangeKind"

C3_BCubeDegrees ==
    BCubeDone =>
        /\ \A l \in DOMAIN links :
              links[l][1] \in SwitchNames /\ links[l][2] \in HostNames
        /\ \A x \in SwitchNames :
              /\ Degree(x) = n.val
              /\ Cardinality({links[l][2] : l \in LinksAt(x)}) = n.val
        /\ \A y \in HostNames :
              /\ Degree(y) = k.val + 1
              /\ \A lv \in 0..k.val :
                    Cardinality({l \in LinksAt(y) : links[l][1][2] = lv}) = 1
C3_Witness == BCubeDone /\ k.val = 2 /\ n.val = 2 /\ Len(links) = 24
\* C4: the completed Fat-Tree(k, r) graph has exactly (k/2)^2/r core switches,
\* k*(k/2) aggregation switches, k*(k/2) edge switches and k^3/4 hosts.
C4_FatTreeCounts ==
    FatTreeDone =>
        /\ Cardinality(NamesWith("c")) = ((k.val \div 2) * (k.val \div 2)) \div r.val
        /\ Cardinality(NamesWith("a")) = k.val * (k.val \div 2)
        /\ Cardinality(NamesWith("e")) = k.val * (k.val \div 2)
        /\ Cardinality(NamesWith("h")) = (k.val * k.val * k.val) \div 4
        /\ SwitchNames = NamesWith("c") \cup NamesWith("a") \cup NamesWith("e")
        /\ HostNames = NamesWith("h")
        /\ Len(g) = Cardinality(NodeNames)
C4_Witness == FatTreeDone /\ k.val = 4 /\ r.val = 2

\* Aggregation / edge switches of pod p, by creation order
PodAggr(p) == {a[p * (k.val \div 2) + q] : q \in 1..(k.val \div 2)}
PodEdge(p) == {e[p * (k.val \div 2) + q] : q \in 1..(k.val \div 2)}
Range(sq) == {sq[idx] : idx \in DOMAIN sq}

\* C5: for every core switch x and every pod p exactly one link is created
\* from x into pod p, ending at the aggregation switch of pod p with in-pod
\* index x div ((k/2)/r); every core switch has degree k, all of it towards
\* aggregation switches, and every aggregation switch has (k/2)/r core links.
C5_CoreWiring ==
    FatTreeDone =>
        LET half == k.val \div 2
            grp == half \div r.val
        IN  /\ Range(c) = NamesWith("c") /\ Range(a) = NamesWith("a")
            /\ Range(a) \subseteq SwitchNames
            /\ \A x \in 1..Len(c) :
                  /\ Degree(c[x]) = k.val
                  /\ \A l \in LinksAt(c[x]) :
                        links[l][1] = c[x] /\ links[l][2] \in Range(a)
                  /\ \A p \in 0..(k.val - 1) :
                        /\ Cardinality({l \in LinksAt(c[x]) :
                                          links[l][2] \in PodAggr(p)}) = 1
                        /\ \E l \in LinksAt(c[x]) :
                              links[l][2] = a[p * half + ((x - 1) \div grp) + 1]
            /\ \A y \in Range(a) :
                  Cardinality({l \in LinksAt(y) : links[l][1] \in Range(c)}) = grp
C5_Witness == FatTreeDone /\ k.val = 6 /\ r.val = 3 /\ Len(c) = 3

\* C6: each pod is a complete bipartite graph between its k/2 aggregation and
\* k/2 edge switches, no aggregation-edge link crosses pods; every edge switch
\* has k/2 host links and k/2 aggregation links (degree k); hosts have degree 1.
C6_PodWiring ==
    FatTreeDone =>
        LET half == k.val \div 2 IN
        /\ Len(a) = k.val * half /\ Len(e) = k.val * half
        /\ \A p \in 0..(k.val - 1) : \A q \in 0..(k.val - 1) :
              \A x \in PodAggr(p) : \A y \in PodEdge(q) :
                 Cardinality({l \in DOMAIN links : Joins(l, x, y)})
                    = IF p = q THEN 1 ELSE 0
        /\ \A x \in Range(a) :
              Cardinality({l \in LinksAt(x) :
                  links[l][1] \in Range(e) \/ links[l][2] \in Range(e)}) = half
        /\ \A y \in Range(e) :
              /\ Cardinality({l \in LinksAt(y) : links[l][2] \in HostNames}) = half
              /\ Cardinality({l \in LinksAt(y) : links[l][1] \in Range(a)}) = half
              /\ Degree(y) = k.val
        /\ \A z \in HostNames : Degree(z) = 1
C6_Witness == FatTreeDone /\ k.val = 4 /\ r.val = 1 /\ Len(links) = 48

\* C7: BCube construction fails with TypeKind if k or n is not an integer and
\* with RangeKind if n < 1 or k < 0, in both cases with the graph still empty;
\* for integer k >= 0 and n >= 1 no error is raised.
C7_BCubeValidation ==
    (topo = "bcube" /\ pc # "start") =>
        /\ (~isinstance_int(k) \/ ~isinstance_int(n)) => err = "TypeKind"
        /\ (isinstance_int(k) /\ isinstance_int(n) /\ (n.val < 1 \/ k.val < 0))
              => err = "RangeKind"
        /\ err # "none" => (g = <<>> /\ links = <<>> /\ pc = "failed")
        /\ BCubeValid => err = "none"
C7_Witness == topo = "bcube" /\ err = "RangeKind" /\ n.val = 0 /\ k.val = 1
\* Positional lookups the constructors are about to make
Within(sq, idx) == 0 <= idx /\ idx < Len(sq)
LookupsInBounds ==
    /\ (pc = "link" /\ v < m + arg2) =>
          /\ Within(nodeslist, v)
          /\ HasNode(g, sw) /\ HasNode(g, PyGet(nodeslist, v))
    /\ (pc = "podlink" /\ aa < aggr_end_node /\ ee < edge_end_node) =>
          Within(s, aa - 1) /\ Within(s, ee - 1)
    /\ (pc = "corelink" /\ core_node < n_core /\ pod < k.val) =>
          /\ Within(s, core_node)
          /\ Within(s, AggrNode(n_core, core_node, k.val, r.val, pod))
C8_Safe ==
    (BCubeValid \/ FatTreeValid) =>
        LET present == NodeNames IN
        /\ err = "none" /\ pc # "failed"
        /\ \A l \in DOMAIN links :
              links[l][1] \in present /\ links[l][2] \in present
        /\ Range(s) \subseteq present
        /\ LookupsInBounds
IsPrefix(sq, tq) == Len(sq) <= Len(tq) /\ \A idx \in DOMAIN sq : sq[idx] = tq[idx]

\* C8: with valid parameters, in every state of either construction both
\* endpoints of every link are nodes already in the graph (nodes and links are
\* only ever appended), every positional lookup is within bounds, no
\* UnknownNodeError or other error is raised, and construction completes.
C8_Construction ==
    /\ []C8_Safe
    /\ [][IsPrefix(g, g') /\ IsPrefix(links, links')]_vars
    /\ ((BCubeValid \/ FatTreeValid) ~> pc = "done")
C8_Witness == FatTreeDone /\ k.val = 6 /\ r.val = 1 /\ Len(links) = 3 * 54

PosOf(y) == (CHOOSE idx \in DOMAIN g : g[idx].name = y) - 1
SwHosts(x) == {PosOf(links[l][2]) : l \in {q \in DOMAIN links : links[q][1] = x}}
Digit(p, base, d) == (p \div Pow(base, d)) % base
Block(b, size) == (b * size)..((b + 1) * size - 1)

\* C10: the stride loop realizes the recursive BCube definition: for k >= 1,
\* without its level-k switches BCube(k, n) falls into n disconnected
\* subgraphs, the b-th on host positions [b*n^k, (b+1)*n^k) and wired as
\* BCube(k-1, n) shifted by b*n^k; each level-k switch has exactly one host in
\* each subgraph; the hosts of a level-L switch agree in every base-n digit
\* except digit L, and two distinct hosts share at most one switch.
C10_Recursive ==
    BCubeDone =>
        LET size == Pow(n.val, k.val)
            switches == SwitchNames
            wiring == {<<x[2], SwHosts(x)>> : x \in switches}
            sub(b) == {<<w[1], {p - b * size : p \in w[2]}>> :
                          w \in {u \in wiring : u[1] < k.val /\ u[2] \subseteq Block(b, size)}}
        IN  /\ wiring = BCubeWiring(k.val, n.val)
            /\ Cardinality(wiring) = Cardinality(switches)
            /\ \A w \in wiring : \A p \in w[2] : \A q \in w[2] :
                  \A d \in 0..k.val :
                     d # w[1] => Digit(p, n.val, d) = Digit(q, n.val, d)
            /\ \A w \in wiring : \A u \in wiring :
                  w # u => Cardinality(w[2] \cap u[2]) <= 1
            /\ k.val >= 1 =>
                  /\ \A w \in wiring : w[1] < k.val =>
                        \E b \in 0..(n.val - 1) : w[2] \subseteq Block(b, size)
                  /\ \A b \in 0..(n.val - 1) : sub(b) = BCubeWiring(k.val - 1, n.val)
                  /\ \A w \in wiring : w[1] = k.val =>
                        \A b \in 0..(n.val - 1) :
                           Cardinality(w[2] \cap Block(b, size)) = 1
C10_Witness == BCubeDone /\ k.val = 2 /\ n.val = 3 /\ Len(links) = 81
====
